---- MODULE Spec2Model ----
(***************************************************************************)
(* Model of new_problem.py: the README progress-block editor.              *)
(*                                                                         *)
(* Text is a sequence of tokens.  Every token stands for one fixed string  *)
(* of the real text, and all whitespace of a text is carried by the two    *)
(* one-character tokens NL and SP, so the regular expressions of the       *)
(* source (\s*, rstrip, ^, $, lazy and greedy runs) are evaluated token by *)
(* token exactly as Python evaluates them character by character on the    *)
(* texts built from these tokens:                                          *)
(*   NL "\n"   SP " "   HASH "##"   DASH "-"   OPEN "[ ]"   DONE "[x]"     *)
(*   LB "["    RBLP "]("   RP ")"   NONE "(none yet)"                       *)
(*   EMD  the em dash,   BT  the backquote,                                *)
(*   START / END  the two sentinel comments,  digits "0".."9",             *)
(*   and whole words ("Arrays", "two", "Sum", "http://x", ...).            *)
(* No token other than NL and SP begins or ends with whitespace, no word   *)
(* is a prefix of another token, and ")" and the backquote occur only in  *)
(* RP, NONE and BT, which is what the classes [^)] and [^BT] look at.      *)
(***************************************************************************)
EXTENDS Naturals, Sequences, FiniteSets, TLC

NL == "\n"
SP == " "
HASH == "##"
DASH == "-"
OPEN == "[ ]"
DONE == "[x]"
LB == "["
RBLP == "]("
RP == ")"
\* the em dash U+2014 of the entry line, written in ASCII here
EMD == "&mdash;"
\* the backquote around the path label
BT == "&grave;"
NONE == "(none yet)"
PROGRESS_START == "<!-- PROGRESS:START -->"
PROGRESS_END == "<!-- PROGRESS:END -->"

(***************************************************************************)
(* Character-class and string helpers of Python's str and re.              *)
(***************************************************************************)
IsSpace(t) == t \in {NL, SP}

IsDigit(t) == t \in {"0", "1", "2", "3", "4", "5", "6", "7", "8", "9"}

Range(s) == {s[i] : i \in 1..Len(s)}

Min(S) == CHOOSE x \in S : \A y \in S : x <= y

\* the literal lit occurs in s at position i
MatchAt(s, i, lit) ==
  /\ i >= 1
  /\ i + Len(lit) - 1 <= Len(s)
  /\ \A k \in 1..Len(lit) : s[i + k - 1] = lit[k]

\* "lit in s"
Contains(s, lit) == \E i \in 1..Len(s) : MatchAt(s, i, lit)

\* ^ under (?m): the start of the text or just after a newline
LineStart(s, i) == i = 1 \/ s[i - 1] = NL

\* $ under (?m): the end of the text or just before a newline
LineEnd(s, i) == i = Len(s) + 1 \/ s[i] = NL

\* the first position >= i holding a token that is not whitespace, Len(s)+1 if none
SpaceEnd(s, i) ==
  LET stop == {k \in i..Len(s) : ~IsSpace(s[k])}
  IN IF stop = {} THEN Len(s) + 1 ELSE Min(stop)

\* str.rstrip()
rstrip(s) ==
  LET keep == {k \in 1..Len(s) : ~IsSpace(s[k])}
  IN IF keep = {} THEN <<>> ELSE SubSeq(s, 1, CHOOSE k \in keep : \A j \in keep : j <= k)

\* str.strip()
strip(s) ==
  LET keep == {k \in 1..Len(s) : ~IsSpace(s[k])}
  IN IF keep = {} THEN <<>>
     ELSE SubSeq(s, Min(keep), CHOOSE k \in keep : \A j \in keep : j <= k)

RECURSIVE FlattenRange(_, _, _)
FlattenRange(ss, lo, hi) ==
  IF lo > hi THEN <<>>
  ELSE IF lo = hi THEN ss[lo]
  ELSE FlattenRange(ss, lo, (lo + hi) \div 2) \o FlattenRange(ss, (lo + hi) \div 2 + 1, hi)

Flatten(ss) == FlattenRange(ss, 1, Len(ss))

\* str.replace(old, new) for a one-token old
Replace(s, old, new) ==
  Flatten([i \in 1..Len(s) |-> IF s[i] = old THEN new ELSE <<s[i]>>])

Digit(d) ==
  CASE d = 0 -> "0" [] d = 1 -> "1" [] d = 2 -> "2" [] d = 3 -> "3" [] d = 4 -> "4"
    [] d = 5 -> "5" [] d = 6 -> "6" [] d = 7 -> "7" [] d = 8 -> "8" [] d = 9 -> "9"

\* the decimal rendering of an f-string {n}
RECURSIVE ToDigits(_)
ToDigits(n) ==
  IF n < 10 THEN <<Digit(n)>> ELSE ToDigits(n \div 10) \o <<Digit(n % 10)>>

(***************************************************************************)
(* slugify and the category title.  lower() and title() act on whole       *)
(* words here: the table lists what they return for each word in use.      *)
(***************************************************************************)
lower(t) ==
  CASE t = "Two" -> "two" [] t = "Sum" -> "sum" [] t = "II" -> "ii"
    [] OTHER -> t

title(t) ==
  CASE t = "arrays" -> "Arrays" [] t = "two" -> "Two" [] t = "pointers" -> "Pointers"
    [] t = "graphs" -> "Graphs" [] OTHER -> t

slugify(name) ==
  LET lowered == [i \in 1..Len(strip(name)) |-> lower(strip(name)[i])]
      under == [i \in 1..Len(lowered) |->
                  IF lowered[i] \in {SP, DASH} THEN "_" ELSE lowered[i]]
  IN Replace(under, "'", <<>>)

\* category.replace('_', ' ').title()
category_title_of(category) ==
  [i \in 1..Len(category) |-> IF category[i] = "_" THEN SP ELSE title(category[i])]

(***************************************************************************)
(* ensure_readme: the text written when README.md does not exist.          *)
(***************************************************************************)
EmptySection(words) == <<HASH, SP>> \o words \o <<NL, NONE, NL, NL>>

SummaryLine(done, planned) ==
  <<DASH, SP, "Total:", SP>> \o done \o <<SP, "done", SP, "/", SP>> \o planned
    \o <<SP, "planned">>

DefaultReadme ==
  <<"# NeetCode 150 - My Progress", NL, NL, "Goal: 5 problems/week", NL, NL,
    HASH, SP, "Progress Summary", NL>>
    \o SummaryLine(<<"0">>, <<"1", "5", "0">>) \o <<NL, NL, "---", NL, NL,
    PROGRESS_START, NL>>
    \o EmptySection(<<"Arrays">>) \o EmptySection(<<"Two", SP, "Pointers">>)
    \o EmptySection(<<"Sliding", SP, "Window">>) \o EmptySection(<<"Stack">>)
    \o EmptySection(<<"Binary", SP, "Search">>) \o <<PROGRESS_END, NL>>

ensure_readme(exists, text) == IF exists THEN text ELSE DefaultReadme

(***************************************************************************)
(* The section pattern  (?m)^## TITLE\s*(.+?)(?=^## |\Z)  with DOTALL.     *)
(* It matches at a line start where "## " and the title's characters       *)
(* follow and at least one more character is left.  \s* is greedy and      *)
(* gives one character back only when the whitespace runs to the end of    *)
(* the text; .+? then runs to the first later line start holding "## ",    *)
(* or to the end of the text.                                              *)
(***************************************************************************)
HeadingAt(s, i) == LineStart(s, i) /\ MatchAt(s, i, <<HASH, SP>>)

SectionStarts(s, category_title) ==
  {i \in 1..Len(s) :
     /\ LineStart(s, i)
     /\ MatchAt(s, i, <<HASH, SP>> \o category_title)
     /\ i + 2 + Len(category_title) <= Len(s)}

\* re.search: the leftmost match, as [start, body, end) positions
SectionMatch(s, category_title) ==
  LET i == Min(SectionStarts(s, category_title))
      j == i + 2 + Len(category_title)
      k == IF SpaceEnd(s, j) <= Len(s) THEN SpaceEnd(s, j) ELSE Len(s)
      stops == {e \in (k + 1)..Len(s) : HeadingAt(s, e)}
  IN [start |-> i, body |-> k, end |-> IF stops = {} THEN Len(s) + 1 ELSE Min(stops)]

upsert_category_block(progress_block, category_title) ==
  IF SectionStarts(progress_block, category_title) # {}
  THEN progress_block
  ELSE rstrip(progress_block) \o <<NL, NL, HASH, SP>> \o category_title
         \o <<NL, NONE, NL, NL>>

(***************************************************************************)
(* The upgrade pattern                                                     *)
(*   (?m)^- \[ \] \[NAME\]\([^)]+\) <em dash> BT[^BT]+BT$                  *)
(* EntryEnd is the position after a match that starts at p, 0 if there is  *)
(* none.  [^)]+ runs to the first character ")" (the one of RP, or the     *)
(* last one of NONE) and must hold at least one character.                 *)
(***************************************************************************)
EntryEnd(s, p, problem_name) ==
  LET head == <<DASH, SP, OPEN, SP, LB>> \o problem_name \o <<RBLP>>
      q == p + Len(head)
      closers == {r \in q..Len(s) : s[r] \in {RP, NONE}}
      r == Min(closers)
      u == r + 5
      ticks == {v \in u..Len(s) : s[v] = BT}
      v == Min(ticks)
  IN IF /\ LineStart(s, p)
        /\ MatchAt(s, p, head)
        /\ closers # {}
        /\ (s[r] = RP => r > q)
        /\ MatchAt(s, r + 1, <<SP, EMD, SP, BT>>)
        /\ ticks # {}
        /\ v > u
        /\ LineEnd(s, v + 1)
     THEN v + 1
     ELSE 0

\* re.sub over the section body: every match, left to right, with every
\* "[ ]" of the matched text turned into "[x]"
RECURSIVE UpgradeFrom(_, _, _)
UpgradeFrom(s, p, problem_name) ==
  LET hits == {q \in p..Len(s) : EntryEnd(s, q, problem_name) > 0}
      q == Min(hits)
      e == EntryEnd(s, q, problem_name)
  IN IF hits = {} THEN SubSeq(s, p, Len(s))
     ELSE SubSeq(s, p, q - 1) \o Replace(SubSeq(s, q, e - 1), OPEN, <<DONE>>)
            \o UpgradeFrom(s, e, problem_name)

EntryLine(problem_name, link, path_str, done) ==
  <<DASH, SP, IF done THEN DONE ELSE OPEN, SP, LB>> \o problem_name \o <<RBLP>>
    \o link \o <<RP, SP, EMD, SP, BT>> \o path_str \o <<BT>>

\* a slip: no check for the name, every request appends a line
new_body_append(section_body, problem_name, line, done) ==
  IF NONE \in Range(section_body)
  THEN Replace(section_body, NONE, line)
  ELSE rstrip(section_body) \o <<NL>> \o line \o <<NL>>

\* a slip: the placeholder is left in place and the line put after it
new_body_keep(section_body, problem_name, line, done) ==
  IF Contains(section_body, <<LB>> \o problem_name \o <<RBLP>>)
  THEN IF done THEN UpgradeFrom(section_body, 1, problem_name) ELSE section_body
  ELSE rstrip(section_body) \o <<NL>> \o line \o <<NL>>

\* a slip: a request that is not done resets the boxes of the section
new_body_reset(section_body, problem_name, line, done) ==
  IF NONE \in Range(section_body)
  THEN Replace(section_body, NONE, line)
  ELSE IF Contains(section_body, <<LB>> \o problem_name \o <<RBLP>>)
       THEN IF done THEN UpgradeFrom(section_body, 1, problem_name)
            ELSE Replace(section_body, DONE, <<OPEN>>)
       ELSE rstrip(section_body) \o <<NL>> \o line \o <<NL>>

\* the new body of the matched section
new_body(section_body, problem_name, line, done) ==
  IF NONE \in Range(section_body)
  THEN Replace(section_body, NONE, line)
  ELSE IF Contains(section_body, <<LB>> \o problem_name \o <<RBLP>>)
       THEN IF done THEN UpgradeFrom(section_body, 1, problem_name)
            ELSE section_body
       ELSE rstrip(section_body) \o <<NL>> \o line \o <<NL>>

add_problem_checkbox(progress_block, category_title, problem_name, link, path_str, done) ==
  LET block == IF SectionStarts(progress_block, category_title) = {}
               THEN upsert_category_block(progress_block, category_title)
               ELSE progress_block
      match == SectionMatch(block, category_title)
      section_start == SubSeq(block, match.start, match.body - 1)
      section_body == SubSeq(block, match.body, match.end - 1)
      line == EntryLine(problem_name, link, path_str, done)
  IN SubSeq(block, 1, match.start - 1) \o section_start
       \o new_body(section_body, problem_name, line, done)
       \o SubSeq(block, match.end, Len(block))

(***************************************************************************)
(* The region pattern  START(.*?)END  with DOTALL: the first start         *)
(* sentinel that has an end sentinel after it, up to the first such end.   *)
(***************************************************************************)
RegionStarts(s) ==
  {i \in 1..Len(s) : s[i] = PROGRESS_START /\ \E j \in (i + 1)..Len(s) : s[j] = PROGRESS_END}

RegionEnd(s, i) == Min({j \in (i + 1)..Len(s) : s[j] = PROGRESS_END})

extract_progress_block(readme) ==
  IF RegionStarts(readme) = {}
  THEN <<PROGRESS_START, NL, HASH, SP, "Arrays", NL, NONE, NL, NL, PROGRESS_END>>
  ELSE SubSeq(readme, Min(RegionStarts(readme)) + 1, RegionEnd(readme, Min(RegionStarts(readme))) - 1)

\* re.sub: every non-overlapping match, left to right
RECURSIVE SubRegions(_, _)
SubRegions(s, new_block) ==
  IF RegionStarts(s) = {} THEN s
  ELSE LET i == Min(RegionStarts(s))
           j == RegionEnd(s, i)
       IN SubSeq(s, 1, i - 1) \o <<PROGRESS_START>> \o new_block \o <<PROGRESS_END>>
            \o SubRegions(SubSeq(s, j + 1, Len(s)), new_block)

replace_progress_block(readme, new_block) ==
  IF RegionStarts(readme) # {}
  THEN SubRegions(readme, new_block)
  ELSE rstrip(readme) \o <<NL, NL, PROGRESS_START>> \o new_block \o <<PROGRESS_END, NL>>

(***************************************************************************)
(* update_summary_counts.  The summary pattern                             *)
(*   (?m)^(## Progress Summary\s*\n- Total: )\d+ done / \d+ planned$       *)
(* SummaryEnd is the position after a match that starts at p (0 if none),  *)
(* SummaryCount the position of its first digit.                           *)
(***************************************************************************)
DigitsEnd(s, i) ==
  LET stop == {k \in i..Len(s) : ~IsDigit(s[k])}
  IN IF stop = {} THEN Len(s) + 1 ELSE Min(stop)

\* a slip: group 1 closed before "- Total: "
SummaryCountShort(s, p) == SpaceEnd(s, p + 3)

SummaryCount(s, p) == SpaceEnd(s, p + 3) + 4

SummaryEnd(s, p) ==
  LET w == SpaceEnd(s, p + 3)
      d == w + 4
      e == DigitsEnd(s, d)
      f == e + 5
      g == DigitsEnd(s, f)
  IN IF /\ LineStart(s, p)
        /\ MatchAt(s, p, <<HASH, SP, "Progress Summary">>)
        /\ w > p + 3
        /\ s[w - 1] = NL
        /\ MatchAt(s, w, <<DASH, SP, "Total:", SP>>)
        /\ e > d
        /\ MatchAt(s, e, <<SP, "done", SP, "/", SP>>)
        /\ g > f
        /\ MatchAt(s, g, <<SP, "planned">>)
        /\ LineEnd(s, g + 2)
     THEN g + 2
     ELSE 0

RECURSIVE SubSummary(_, _, _)
SubSummary(s, p, done) ==
  LET hits == {q \in p..Len(s) : SummaryEnd(s, q) > 0}
      q == Min(hits)
  IN IF hits = {} THEN SubSeq(s, p, Len(s))
     ELSE SubSeq(s, p, SummaryCount(s, q) - 1) \o ToDigits(done)
            \o <<SP, "done", SP, "/", SP, "1", "5", "0", SP, "planned">>
            \o SubSummary(s, SummaryEnd(s, q), done)

\* a slip: the count of all boxes, (?m)^- \[(?: |x)\], written as the done count
CountBoxes(progress) ==
  Cardinality({i \in 1..Len(progress) :
                 /\ LineStart(progress, i)
                 /\ \/ MatchAt(progress, i, <<DASH, SP, DONE>>)
                    \/ MatchAt(progress, i, <<DASH, SP, OPEN>>)})

\* len(re.findall(r"(?m)^- \[x\]", progress))
CountDone(progress) ==
  Cardinality({i \in 1..Len(progress) :
                 LineStart(progress, i) /\ MatchAt(progress, i, <<DASH, SP, DONE>>)})

update_summary_counts(readme) ==
  SubSummary(readme, 1, CountDone(extract_progress_block(readme)))

(***************************************************************************)
(* The program state: README.md, the problem files created so far, and     *)
(* the record of the last run of main (what it read, the progress block    *)
(* after each step, what it wrote).                                        *)
(***************************************************************************)
VARIABLES readmeExists, readme, files, calls, origin, last

vars == <<readmeExists, readme, files, calls, origin, last>>

\* runs of main explored
MaxCalls == 2

\* sys.argv[3]
Categories == {<<"arrays">>, <<"two">>, <<"two", "_", "pointers">>, <<"graphs">>}

\* sys.argv[1]
Names == {<<"Two", SP, "Sum">>, <<"Two", SP, "Sum", SP, "II">>}

\* sys.argv[2]
Links == {<<"http://x">>, <<"http://w/a_(b", RP>>}

\* README.md files found on disk before the first run
BareReadme ==
  <<"# My notes", NL, NL, HASH, SP, "Progress Summary", NL>>
    \o SummaryLine(<<"0">>, <<"1", "5", "0">>) \o <<NL>>

EditedReadme ==
  <<"# My notes", NL, NL, HASH, SP, "Progress Summary", NL>>
    \o SummaryLine(<<"3">>, <<"7", "5">>) \o <<NL, NL, PROGRESS_START, NL,
    HASH, SP, "Arrays", NL, NONE, NL>>
    \o EntryLine(<<"Two", SP, "Sum">>, <<"http://x">>,
                 <<"arrays", "/", "two", "_", "sum", ".py">>, FALSE)
    \o <<NL, NL>> \o EmptySection(<<"Two", SP, "Pointers">>) \o <<PROGRESS_END, NL>>

PlainReadme ==
  <<"# My notes", NL, NL, PROGRESS_START, NL>> \o EmptySection(<<"Arrays">>)
    \o <<PROGRESS_END, NL>>

NoRun ==
  [op |-> "init", title |-> <<>>, name |-> <<>>, link |-> <<>>, path |-> <<>>,
   done |-> FALSE, doc0 |-> <<>>, block0 |-> <<>>, block1 |-> <<>>, block2 |-> <<>>,
   doc1 |-> <<>>]

Init ==
  /\ \/ origin = "absent" /\ readmeExists = FALSE /\ readme = <<>>
     \/ origin = "bare" /\ readmeExists = TRUE /\ readme = BareReadme
     \/ origin = "edited" /\ readmeExists = TRUE /\ readme = EditedReadme
     \/ origin = "plain" /\ readmeExists = TRUE /\ readme = PlainReadme
  /\ files = {}
  /\ calls = 0
  /\ last = NoRun

\* main, for a command line with its three arguments and the template in place
main(category, problem_name, problem_link, mark_done) ==
  LET filename == slugify(problem_name) \o <<".py">>
      output_path == category \o <<"/">> \o filename
      category_title == category_title_of(category)
      path_str == category \o <<"/">> \o filename
  IN /\ calls < MaxCalls
     /\ \E text \in {ensure_readme(readmeExists, readme)} :
          \E block0 \in {extract_progress_block(text)} :
            \E block1 \in {upsert_category_block(block0, category_title)} :
              \E block2 \in {add_problem_checkbox(block1, category_title, problem_name,
                                                  problem_link, path_str, mark_done)} :
                \E new_readme \in {replace_progress_block(text, block2)} :
                  /\ calls' = calls + 1
                  /\ files' = files \cup {output_path}
                  /\ readmeExists' = TRUE
                  /\ readme' = update_summary_counts(new_readme)
                  /\ last' = [op |-> "main", title |-> category_title,
                              name |-> problem_name, link |-> problem_link,
                              path |-> path_str, done |-> mark_done,
                              doc0 |-> text, block0 |-> block0, block1 |-> block1,
                              block2 |-> block2, doc1 |-> new_readme]
                  /\ UNCHANGED origin

Next ==
  \E category \in Categories, problem_name \in Names, problem_link \in Links,
     mark_done \in BOOLEAN :
    main(category, problem_name, problem_link, mark_done)

Spec == Init /\ [][Next]_vars

(***************************************************************************)
(* Reading a text by lines, for the properties below: a section is a       *)
(* heading line "## <title>" and the lines up to the next heading line.    *)
(***************************************************************************)
LineStarts(s) == {p \in 1..(Len(s) + 1) : p = 1 \/ s[p - 1] = NL}

LineOf(s, p) ==
  LET nls == {k \in p..Len(s) : s[k] = NL}
  IN SubSeq(s, p, IF nls = {} THEN Len(s) ELSE Min(nls) - 1)

HasPrefix(line, pre) == Len(pre) <= Len(line) /\ SubSeq(line, 1, Len(pre)) = pre

HeadingLines(s) == {p \in LineStarts(s) : HasPrefix(LineOf(s, p), <<HASH, SP>>)}

TitleAt(s, p) == SubSeq(LineOf(s, p), 3, Len(LineOf(s, p)))

HasSection(s, t) == \E p \in HeadingLines(s) : TitleAt(s, p) = t

\* line q belongs to the section whose heading line is p
InSection(s, p, q) == p < q /\ ~\E h \in HeadingLines(s) : p < h /\ h <= q

\* the heading line p and its body, up to the next heading line or the end
SectionText(s, p) ==
  LET later == {h \in HeadingLines(s) : h > p}
  IN SubSeq(s, p, IF later = {} THEN Len(s) ELSE Min(later) - 1)

BodyLines(s, p) == {q \in LineStarts(s) : q <= Len(s) /\ InSection(s, p, q)}

IsEntry(line) == HasPrefix(line, <<DASH, SP, OPEN>>) \/ HasPrefix(line, <<DASH, SP, DONE>>)

IsEntryFor(line, n) ==
  \/ HasPrefix(line, <<DASH, SP, OPEN, SP, LB>> \o n \o <<RBLP>>)
  \/ HasPrefix(line, <<DASH, SP, DONE, SP, LB>> \o n \o <<RBLP>>)

\* the entry lines of the pair (category t, name n)
EntriesFor(s, t, n) ==
  {q \in LineStarts(s) :
     /\ IsEntryFor(LineOf(s, q), n)
     /\ \E p \in HeadingLines(s) : TitleAt(s, p) = t /\ InSection(s, p, q)}

\* the text strictly between the first start sentinel and the first end
\* sentinel after it
RegionOf(doc) ==
  LET a == {i \in 1..Len(doc) : doc[i] = PROGRESS_START}
      b == {j \in 1..Len(doc) : doc[j] = PROGRESS_END /\ j > Min(a)}
  IN IF a = {} THEN <<>> ELSE IF b = {} THEN <<>> ELSE SubSeq(doc, Min(a) + 1, Min(b) - 1)

Count(s, t) == Cardinality({i \in 1..Len(s) : s[i] = t})

DigitRun(line, i) ==
  LET stop == {k \in i..Len(line) : ~IsDigit(line[k])}
  IN SubSeq(line, i, IF stop = {} THEN Len(line) ELSE Min(stop) - 1)

DigitValue(t) == CHOOSE d \in 0..9 : Digit(d) = t

RECURSIVE Number(_)
Number(ds) ==
  IF ds = <<>> THEN 0
  ELSE 10 * Number(SubSeq(ds, 1, Len(ds) - 1)) + DigitValue(ds[Len(ds)])

\* the two numbers of a line "- Total: <d> done / <p> planned"
DoneDigits(line) == DigitRun(line, 5)

PlannedDigits(line) == DigitRun(line, 10 + Len(DoneDigits(line)))

IsTotalLine(line) ==
  /\ DoneDigits(line) # <<>>
  /\ PlannedDigits(line) # <<>>
  /\ line = SummaryLine(DoneDigits(line), PlannedDigits(line))

\* the Summary Lines: a total line that follows the "## Progress Summary" heading
TotalLines(doc) ==
  {p \in LineStarts(doc) :
     /\ IsTotalLine(LineOf(doc, p))
     /\ \E h \in LineStarts(doc) :
          /\ h + 3 < p
          /\ HasPrefix(LineOf(doc, h), <<HASH, SP, "Progress Summary">>)
          /\ \A k \in (h + 3)..(p - 1) : IsSpace(doc[k])}

DoneIndexes(doc) ==
  UNION {(p + 4)..(p + 3 + Len(DoneDigits(LineOf(doc, p)))) : p \in TotalLines(doc)}

PlannedIndexes(doc) ==
  UNION {(p + 9 + Len(DoneDigits(LineOf(doc, p))))..(p + Len(LineOf(doc, p)) - 3) :
           p \in TotalLines(doc)}

Without(doc, I) == Flatten([i \in 1..Len(doc) |-> IF i \in I THEN <<>> ELSE <<doc[i]>>])

Ran == last.op = "main"

(***************************************************************************)
(* C1  Idempotence of add_problem_checkbox: applied again with the same    *)
(* arguments to the block it returned, it returns that block unchanged.    *)
(***************************************************************************)
C1_Idempotent ==
  Ran => add_problem_checkbox(last.block2, last.title, last.name, last.link,
                              last.path, last.done) = last.block2

(***************************************************************************)
(* C2  Monotonic completion: a request that is not done leaves every       *)
(* entry line of its (category, name) pair as it was, so a line rendered   *)
(* done stays done.  Read on the README before and after the run.          *)
(***************************************************************************)
C2_MonotonicCompletion ==
  (Ran /\ ~last.done) =>
    \A q \in EntriesFor(RegionOf(last.doc0), last.title, last.name) :
      \E r \in EntriesFor(RegionOf(readme), last.title, last.name) :
        LineOf(RegionOf(readme), r) = LineOf(RegionOf(last.doc0), q)

C2_Witness ==
  /\ Ran
  /\ ~last.done
  /\ \E q \in EntriesFor(RegionOf(last.doc0), last.title, last.name) :
       HasPrefix(LineOf(RegionOf(last.doc0), q), <<DASH, SP, DONE>>)
  /\ \E r \in EntriesFor(RegionOf(readme), last.title, last.name) :
       HasPrefix(LineOf(RegionOf(readme), r), <<DASH, SP, DONE>>)

(***************************************************************************)
(* C3  Summary consistency: after update_summary_counts the number after   *)
(* "Total:" in every Summary Line is the number of lines beginning with    *)
(* "- [x]" in the text between the sentinels of the document written.      *)
(***************************************************************************)
C3_SummaryConsistent ==
  Ran =>
    \A p \in TotalLines(readme) :
      Number(DoneDigits(LineOf(readme, p))) =
        Cardinality({q \in LineStarts(RegionOf(readme)) :
                       HasPrefix(LineOf(RegionOf(readme), q), <<DASH, SP, DONE>>)})

C3_Witness ==
  /\ Ran
  /\ \E p \in TotalLines(readme) : Number(DoneDigits(LineOf(readme, p))) = 1
  /\ \E q \in LineStarts(RegionOf(readme)) :
       HasPrefix(LineOf(RegionOf(readme), q), <<DASH, SP, OPEN>>)

(***************************************************************************)
(* C4  Category isolation: a run for category A on a block taken from      *)
(* between the sentinels leaves the heading and the body of every other    *)
(* section B of the block byte for byte as they were.                      *)
(***************************************************************************)
C4_OtherSectionsUnchanged ==
  (Ran /\ RegionOf(last.doc0) = last.block0) =>
    \A p \in HeadingLines(last.block0) :
      TitleAt(last.block0, p) # last.title =>
        \E r \in HeadingLines(last.block2) :
          SectionText(last.block2, r) = SectionText(last.block0, p)

(***************************************************************************)
(* C5  Entry uniqueness: from the default README, every (category, name)   *)
(* pair has at most one entry line in the progress region.                 *)
(***************************************************************************)
C5_EntryUnique ==
  (origin = "absent" /\ readmeExists) =>
    \A p \in HeadingLines(RegionOf(readme)) : \A n \in Names :
      Cardinality(EntriesFor(RegionOf(readme), TitleAt(RegionOf(readme), p), n)) <= 1

\* the name was there already, with another link or another box
C5_Witness ==
  /\ origin = "absent"
  /\ Ran
  /\ \E q \in EntriesFor(last.block1, last.title, last.name) :
       LineOf(last.block1, q) # EntryLine(last.name, last.link, last.path, last.done)
  /\ Cardinality(EntriesFor(RegionOf(readme), last.title, last.name)) = 1

(***************************************************************************)
(* C6  Placeholder: from the default README, a section holds a line        *)
(* "(none yet)" exactly when it has no entry line; and a run for a         *)
(* category whose section held the placeholder leaves that section with    *)
(* no placeholder and exactly one entry line.                              *)
(***************************************************************************)
HasPlaceholder(s, p) == \E q \in BodyLines(s, p) : LineOf(s, q) = <<NONE>>

EntryCount(s, p) == Cardinality({q \in BodyLines(s, p) : IsEntry(LineOf(s, q))})

C6_Placeholder ==
  (origin = "absent" /\ readmeExists) =>
    /\ \A p \in HeadingLines(RegionOf(readme)) :
         HasPlaceholder(RegionOf(readme), p) <=> EntryCount(RegionOf(readme), p) = 0
    /\ Ran =>
         \A p \in HeadingLines(last.block1) :
           (TitleAt(last.block1, p) = last.title /\ HasPlaceholder(last.block1, p)) =>
             \E r \in HeadingLines(last.block2) :
               /\ TitleAt(last.block2, r) = last.title
               /\ ~HasPlaceholder(last.block2, r)
               /\ EntryCount(last.block2, r) = 1

C6_Witness ==
  /\ origin = "absent"
  /\ Ran
  /\ \E p \in HeadingLines(last.block1) :
       TitleAt(last.block1, p) = last.title /\ HasPlaceholder(last.block1, p)
  /\ \E r \in HeadingLines(RegionOf(readme)) :
       /\ TitleAt(RegionOf(readme), r) = last.title
       /\ ~HasPlaceholder(RegionOf(readme), r)
       /\ EntryCount(RegionOf(readme), r) = 1

(***************************************************************************)
(* C7  upsert_category_block matches the title exactly: the block comes    *)
(* back unchanged exactly when it has a heading line "## T", and the       *)
(* block returned always has one.                                          *)
(***************************************************************************)
C7_ExactTitle ==
  Ran =>
    /\ (last.block1 = last.block0) <=> HasSection(last.block0, last.title)
    /\ HasSection(last.block1, last.title)

(***************************************************************************)
(* C8  Done upgrade: from the default README, a done request for a name    *)
(* whose entry line is not done returns the block with that line's box     *)
(* turned to "[x]" and the rest of the line as it was, whatever the link   *)
(* stored in the line.                                                     *)
(***************************************************************************)
C8_DoneUpgrade ==
  (origin = "absent" /\ Ran /\ last.done) =>
    \A q \in EntriesFor(last.block1, last.title, last.name) :
      LineOf(last.block1, q)[3] = OPEN =>
        \E r \in EntriesFor(last.block2, last.title, last.name) :
          LineOf(last.block2, r) = [LineOf(last.block1, q) EXCEPT ![3] = DONE]

(***************************************************************************)
(* C9  update_summary_counts frame.  As claimed: only the done count of    *)
(* the Summary Line changes, the planned number stays whatever it was.     *)
(***************************************************************************)
C9_OnlyDoneCountChanges ==
  Ran => Without(readme, DoneIndexes(readme)) = Without(last.doc1, DoneIndexes(last.doc1))

(***************************************************************************)
(* C9, amended: update_summary_counts changes the done count of the        *)
(* Summary Line and writes 150 as its planned number; every other          *)
(* character is unchanged, and a document with no Summary Line comes back  *)
(* unchanged.                                                              *)
(***************************************************************************)
C9_SummaryFrame ==
  Ran =>
    /\ Without(readme, DoneIndexes(readme) \cup PlannedIndexes(readme)) =
         Without(last.doc1, DoneIndexes(last.doc1) \cup PlannedIndexes(last.doc1))
    /\ \A p \in TotalLines(readme) : PlannedDigits(LineOf(readme, p)) = <<"1", "5", "0">>
    /\ TotalLines(last.doc1) = {} => readme = last.doc1

\* a run that rewrote the Summary Line with a done count above zero
C9_Witness ==
  /\ Ran
  /\ TotalLines(last.doc1) # {}
  /\ readme # last.doc1
  /\ \E p \in TotalLines(readme) : Number(DoneDigits(LineOf(readme, p))) > 0

(***************************************************************************)
(* C10  Region round trip of one run: the README written holds exactly     *)
(* one start and one end sentinel, the text between them is the block      *)
(* handed to replace_progress_block, and the entry line of the run lies    *)
(* between them.                                                           *)
(***************************************************************************)
C10_RoundTrip ==
  Ran =>
    /\ Count(readme, PROGRESS_START) = 1
    /\ Count(readme, PROGRESS_END) = 1
    /\ RegionOf(readme) = last.block2
    /\ \E q \in LineStarts(RegionOf(readme)) :
         IsEntryFor(LineOf(RegionOf(readme), q), last.name)

====
